---- MODULE Spec2Model ----
(***************************************************************************)
(* Model of the LeetCode submission scraper: main.py (main),               *)
(* utils/cookies.py (CookieManager.load_cookies) and utils/scraper.py      *)
(* (LeetCodeScraper).  One run of main() walks the paginated submission    *)
(* listing newest-first, saves accepted solutions and records a watermark  *)
(* in the state file.  Time is counted in minutes.                         *)
(***************************************************************************)
EXTENDS Integers, Sequences, FiniteSets, TLC

\* ------------------------------------------------------------------ bounds
NumRows == 3        \* rows of the listing
PageSize == 2       \* rows per listing page
ClockSlack == 1     \* minutes the clock may advance beyond the newest row
MaxRuns == 2        \* invocations of main()
MaxFaults == 1      \* failures of the environment (driver, disk, pages)
MaxTokens == 2      \* <integer> <unit> tokens in a time text parsed on its own
MaxValue == 3       \* largest integer of such a token
MaxDigits == 5      \* digits of a front-end id padded on its own
MaxTitle == 3       \* characters of a title sanitized on its own

MaxClock == NumRows + ClockSlack

\* --------------------------------------------------------------- sentinels
NoTime == 0 - 1        \* Optional[datetime] None / state file missing
Corrupt == 0 - 2       \* state file holding no valid ISO timestamp
EmptyCode == 0         \* the empty string returned by extract_code

Cost(failed) == IF failed THEN 1 ELSE 0

\* ------------------------------------------------------ relative-time parser
Units == {"minute", "hour", "day", "week", "month", "year"}

UnitMinutes(unit) ==
    CASE unit = "minute" -> 1
      [] unit = "hour"   -> 60
      [] unit = "day"    -> 1440
      [] unit = "week"   -> 10080
      [] unit = "month"  -> 43800
      [] unit = "year"   -> 525600

\* Variant of TotalMinutes: only the first token counts.
TotalMinutes_First(matches) ==
    IF matches = << >> THEN 0
    ELSE matches[1][1] * UnitMinutes(matches[1][2])

RECURSIVE TotalMinutes(_)
TotalMinutes(matches) ==
    IF matches = << >> THEN 0
    ELSE matches[1][1] * UnitMinutes(matches[1][2]) + TotalMinutes(Tail(matches))

\* Variant of parse_relative_time: a text without tokens yields the epoch.
parse_relative_time_Epoch(matches, clock) ==
    IF matches = << >> THEN 0
    ELSE clock - TotalMinutes(matches)

\* matches: the <<value, unit>> tokens re.findall extracts from the text
parse_relative_time(matches, clock) ==
    IF matches = << >> THEN clock
    ELSE clock - TotalMinutes(matches)

\* The listing shows a submission's age relative to the moment the page was
\* loaded; an age below one minute carries no <integer> <unit> token.
TimeText(age) ==
    IF age <= 0 THEN << >> ELSE << <<age, "minute">> >>

\* The tokens re.findall extracts from the first cell of a row.
TimestampTokens(time, age) ==
    IF time = "unparsed" THEN << >> ELSE TimeText(age)

\* ------------------------------------------------------------ solution writer
SupportedLanguages == {"cpp", "python3", "c", "java", "javascript", "typescript"}

\* Variant of extension_map: every language gets the fallback extension.
extension_map_Txt(language) == <<"t", "x", "t">>

\* extension_map.get(language, "txt"), the extension as its characters.
extension_map(language) ==
    CASE language = "cpp"        -> <<"c", "p", "p">>
      [] language = "python3"    -> <<"p", "y">>
      [] language = "c"          -> <<"c">>
      [] language = "java"       -> <<"j", "a", "v", "a">>
      [] language = "javascript" -> <<"j", "s">>
      [] language = "typescript" -> <<"t", "s">>
      [] OTHER                   -> <<"t", "x", "t">>

AlnumChars == {"A", "B", "b", "7"}
KeptChars == {" ", "-", "_", "."}

\* Variant of SanitizeChar: only alphanumerics are kept.
SanitizeChar_AlnumOnly(c) == IF c \in AlnumChars THEN c ELSE "_"

SanitizeChar(c) == IF c \in AlnumChars \/ c \in KeptChars THEN c ELSE "_"

sanitized_title(title) == [i \in 1..Len(title) |-> SanitizeChar(title[i])]

\* f"{problem_id} - {sanitized_title}.{file_extension}" under save_dir, as the
\* characters of the file name.
file_path(problem_id, title, language) ==
    problem_id \o <<" ", "-", " ">> \o sanitized_title(title) \o <<".">>
        \o extension_map(language)

\* ----------------------------------------------------------- identity resolver
IdWidth == 4

\* Variant of zfill: nothing is padded.
zfill_None(digits, width) == digits

zfill(digits, width) ==
    IF Len(digits) >= width THEN digits
    ELSE [i \in 1..(width - Len(digits)) |-> "0"] \o digits

\* What the problem page of each reference holds.
Urls == {"u1", "u2"}

QuestionFrontendId(url) == IF url = "u1" THEN <<"1">> ELSE <<"2", "7">>

PageTitle(url) == IF url = "u1" THEN <<"A", "/", "B">> ELSE <<"b", " ", "7">>

NotFound == [problem_id |-> << >>, problem_title |-> << >>]

\* ------------------------------------------------------------------- listing
Accepted == "Accepted"

\* time: what the first cell shows, the submission's age ("age") or a text
\* without any <integer> <unit> token ("unparsed").
RowKinds ==
    { [url |-> "u1", status |-> Accepted, language |-> "python3", cols |-> 5,
       time |-> "age"],
      [url |-> "u2", status |-> Accepted, language |-> "cpp", cols |-> 5,
       time |-> "age"],
      [url |-> "u1", status |-> "Wrong Answer", language |-> "python3", cols |-> 5,
       time |-> "age"],
      [url |-> "u2", status |-> Accepted, language |-> "ruby", cols |-> 5,
       time |-> "age"],
      [url |-> "u1", status |-> Accepted, language |-> "python3", cols |-> 1,
       time |-> "age"],
      [url |-> "u1", status |-> Accepted, language |-> "python3", cols |-> 5,
       time |-> "unparsed"] }

\* The row most of the listing is made of: one problem solved in one language.
DefaultRow ==
    [url |-> "u1", status |-> Accepted, language |-> "python3", cols |-> 5,
     time |-> "age"]

\* The listings of the account: resubmissions of one problem, with at most one
\* row of another kind at any position.
Listings ==
    { [r \in 1..NumRows |-> IF r = d THEN k ELSE DefaultRow] :
        d \in 1..NumRows, k \in RowKinds }

\* Row r of the listing was submitted at minute NumRows + 1 - r: newest first.
SubmittedAt(r) == NumRows + 1 - r

NumPages == (NumRows + PageSize - 1) \div PageSize

PageLen(p) == IF p * PageSize <= NumRows THEN PageSize ELSE NumRows - (p - 1) * PageSize

RowAt(p, i) == (p - 1) * PageSize + i

VARIABLES
    now,                \* datetime.now()
    listing,            \* the account's submissions, newest first
    cookie_file,        \* CookieManager.cookie_file on disk
    state_file,         \* LeetCodeScraper.state_file on disk
    files,              \* save_dir: path -> content
    pc,                 \* position of the process
    run,                \* invocations of main() so far
    last_scraped_time,  \* self.last_scraped_time
    saved_keys,         \* self.saved_keys
    slug_to_id_title,   \* self.slug_to_id_title
    newest_timestamp,   \* local of start()
    focus,              \* the driver's current window: "main", "tab", "none"
    tabs,               \* secondary windows open
    page, idx,          \* listing page shown and loop position in its rows
    loaded_at,          \* minute at which the page shown was loaded
    cur,                \* locals of the loop body for the row at hand; raised:
                        \* the body left through its except block
    outcome,            \* how the run ended
    wm_updates,         \* calls of update_last_scraped_time in this run
    faults,             \* failures the environment has produced so far
    opens,              \* per problem reference: problem pages opened this run
    writes,             \* per DedupKey: the save_solution calls of this run, <<row, result>>
    uncommitted,        \* rows whose extraction or file write failed, not committed since
    arg, ret            \* a function of the scraper called on its own: the
                        \* argument, and what it returned with the clock at the call

vars == <<now, listing, cookie_file, state_file, files, pc, run,
          last_scraped_time, saved_keys, slug_to_id_title, newest_timestamp,
          focus, tabs, page, idx, loaded_at, cur, outcome, wm_updates, faults,
          opens, writes, uncommitted, arg, ret>>

call == <<arg, ret>>

NoCall == << >>

Languages == {k.language : k \in RowKinds}

DedupKeys == {<<zfill(QuestionFrontendId(u), IdWidth), l>> : u \in Urls, l \in Languages}

\* The source text a submission's detail view embeds: one text per submission.
SubmissionCode(r) == SubmittedAt(r)

NoCur ==
    [row |-> 0, submission_time |-> NoTime, stage |-> "none",
     problem_id |-> << >>, problem_title |-> << >>, raised |-> FALSE]

\* ------------------------------------------------------------ watermark store
\* Variant of load_last_scraped_time: what the file holds is returned as it is.
load_last_scraped_time_Raw(stored, readable) == stored

load_last_scraped_time(stored, readable) ==
    IF stored = NoTime THEN NoTime
    ELSE IF stored = Corrupt THEN NoTime
    ELSE IF ~readable THEN NoTime
    ELSE stored

\* Variant of update_last_scraped_time: the timestamp reaches the file whatever
\* open and write report.
update_last_scraped_time_Forced(stored, clock, io) == clock

\* Variant of update_last_scraped_time: the state file is removed.
update_last_scraped_time_Removed(stored, clock, io) == NoTime

\* open(state_file, "w") truncates the file before anything is written.
update_last_scraped_time(stored, clock, io) ==
    CASE io = "ok"          -> clock
      [] io = "open_fails"  -> stored
      [] io = "write_fails" -> Corrupt

IoResults == {"ok", "open_fails", "write_fails"}

\* Variant of save_solution: the file is opened and nothing is written to it.
save_solution_Blank(dir, path, code, io) == (path :> EmptyCode) @@ dir

\* save_solution: the directory after open(file_path, "w") and file.write(code)
save_solution(dir, path, code, io) ==
    CASE io = "ok"          -> (path :> code) @@ dir
      [] io = "open_fails"  -> dir
      [] io = "write_fails" -> (path :> EmptyCode) @@ dir

\* -------------------------------------------------------- navigation context
\* start(), except block of the row loop: back to the main window, or give up.
\* rec names the driver call of the handler that raises, if any.
RecoverFaults == {"none", "handle", "close", "switch"}

RowRecovery(f, t, rec) ==
    IF f = "none" \/ rec = "handle"
    THEN [focus |-> "none", tabs |-> 0, abort |-> TRUE]
    ELSE IF f = "main"
    THEN [focus |-> "main", tabs |-> t, abort |-> FALSE]
    ELSE IF rec \in {"close", "switch"}
    THEN [focus |-> "none", tabs |-> 0, abort |-> TRUE]
    ELSE [focus |-> "main", tabs |-> t - 1, abort |-> FALSE]

\* extract_problem_id_and_title, except block: the same steps, failures swallowed.
ResolverRecovery(f, t, rec) ==
    IF f = "none" \/ rec = "handle"
    THEN [focus |-> f, tabs |-> t]
    ELSE IF f = "main"
    THEN [focus |-> "main", tabs |-> t]
    ELSE IF rec = "close"
    THEN [focus |-> "tab", tabs |-> t]
    ELSE IF rec = "switch"
    THEN [focus |-> "none", tabs |-> t - 1]
    ELSE [focus |-> "main", tabs |-> t - 1]

ResolverFaults == {"none", "open", "switch", "source", "close", "back"}

\* The (problem_id, problem_title) the regexes yield from a loaded page.
PageIdentity(url, loaded) ==
    IF loaded
    THEN [problem_id |-> zfill(QuestionFrontendId(url), IdWidth),
          problem_title |-> PageTitle(url)]
    ELSE NotFound

\* Variant of CacheHit: the cache is never consulted.
CacheHit_Never(cache, url) == FALSE

CacheHit(cache, url) == url \in DOMAIN cache

CacheAfter(cache, url, identity) ==
    IF identity.problem_id # << >> THEN (url :> identity) @@ cache ELSE cache

\* extract_problem_id_and_title(url): result, window state and cache afterwards.
extract_problem_id_and_title(cache, url, t, fault, rec, loaded) ==
    IF CacheHit(cache, url)
    THEN [identity |-> cache[url], focus |-> "main", tabs |-> t,
          cache |-> cache, opened |-> FALSE]
    ELSE IF fault = "none"
    THEN [identity |-> PageIdentity(url, loaded), focus |-> "main", tabs |-> t,
          cache |-> CacheAfter(cache, url, PageIdentity(url, loaded)),
          opened |-> TRUE]
    ELSE LET at == CASE fault = "open"   -> [focus |-> "main", tabs |-> t]
                     [] fault = "switch" -> [focus |-> "main", tabs |-> t + 1]
                     [] fault = "source" -> [focus |-> "tab",  tabs |-> t + 1]
                     [] fault = "close"  -> [focus |-> "tab",  tabs |-> t + 1]
                     [] fault = "back"   -> [focus |-> "none", tabs |-> t]
             back == ResolverRecovery(at.focus, at.tabs, rec)
         IN [identity |-> NotFound, focus |-> back.focus, tabs |-> back.tabs,
             cache |-> cache, opened |-> TRUE]

\* ------------------------------------------------------------- row classifier
\* Variant of CutoffReached: a row submitted exactly at the watermark passes.
CutoffReached_Strict(submission_time, watermark) ==
    watermark # NoTime /\ submission_time < watermark

CutoffReached(submission_time, watermark) ==
    watermark # NoTime /\ submission_time <= watermark

Newest(newest, submission_time) ==
    IF newest = NoTime \/ submission_time > newest THEN submission_time ELSE newest

\* Variant of Eligible: the language filter is left out.
Eligible_AnyLanguage(status, language) == status = Accepted

Eligible(status, language) ==
    ~(status # Accepted \/ language \notin SupportedLanguages)

\* Variant of IsDuplicate: the ledger is never consulted.
IsDuplicate_Never(solution_key, ledger) == FALSE

IsDuplicate(solution_key, ledger) == solution_key \in ledger

\* ---------------------------------------------------------------------- Init
\* Nothing has run yet.
Fresh ==
    /\ cookie_file = "missing"
    /\ files = << >>
    /\ pc = "idle"
    /\ run = 0
    /\ last_scraped_time = NoTime
    /\ saved_keys = {}
    /\ slug_to_id_title = << >>
    /\ newest_timestamp = NoTime
    /\ focus = "none"
    /\ tabs = 0
    /\ page = 1
    /\ idx = 1
    /\ loaded_at = NumRows
    /\ cur = NoCur
    /\ outcome = "none"
    /\ wm_updates = 0
    /\ faults = 0
    /\ opens = [u \in Urls |-> 0]
    /\ writes = [k \in DedupKeys |-> << >>]
    /\ uncommitted = {}

Init ==
    /\ now = NumRows
    /\ listing \in Listings
    /\ state_file \in {NoTime} \cup 1..(NumRows - 1)
    /\ Fresh
    /\ arg = NoCall
    /\ ret = NoCall

\* datetime.now() moves on: between runs, and in the sleeps of the row loop
Tick ==
    /\ pc \in {"idle", "row"}
    /\ now < MaxClock
    /\ now' = now + 1
    /\ UNCHANGED <<listing, cookie_file, state_file, files, pc, run,
                   last_scraped_time, saved_keys, slug_to_id_title,
                   newest_timestamp, focus, tabs, page, idx, loaded_at, cur,
                   outcome, wm_updates, faults, opens, writes, uncommitted>>
    /\ UNCHANGED call

\* What the browser's cookie store yields: no jar, a jar without cookies, a jar
\* whose cookies lack a name or a value, or the cookies of a signed-in session.
CookieJars == {"none", "empty", "blank", "valid"}

\* CookieManager.load_cookies: the cookie file afterwards; it returns False
\* exactly when the file is still missing.  A jar without cookies is falsy, and
\* cookies without name or value are left out of the file.
load_cookies(file, jar, saved) ==
    IF file # "missing" THEN file
    ELSE IF jar \in {"none", "empty"} \/ ~saved THEN "missing"
    ELSE IF jar = "blank" THEN "empty"
    ELSE "valid"

\* main(): authentication, then LeetCodeScraper.__init__
Main(jar, saved, readable) ==
    /\ pc = "idle"
    /\ run < MaxRuns
    /\ cookie_file # "missing" => jar = "valid" /\ saved
    /\ state_file < 0 => readable
    /\ faults' = faults + Cost(jar # "valid") + Cost(~saved) + Cost(~readable)
    /\ faults' <= MaxFaults
    /\ run' = run + 1
    /\ cookie_file' = load_cookies(cookie_file, jar, saved)
    /\ IF cookie_file' = "missing"
       THEN /\ pc' = "idle"
            /\ outcome' = "auth_failed"
            /\ UNCHANGED <<last_scraped_time, saved_keys, slug_to_id_title>>
       ELSE /\ pc' = "constructed"
            /\ outcome' = "running"
            /\ last_scraped_time' = load_last_scraped_time(state_file, readable)
            /\ saved_keys' = {}
            /\ slug_to_id_title' = << >>
    /\ cur' = NoCur
    /\ wm_updates' = 0
    /\ opens' = [u \in Urls |-> 0]
    /\ writes' = [k \in DedupKeys |-> << >>]
    /\ UNCHANGED <<now, listing, state_file, files, newest_timestamp, focus,
                   tabs, page, idx, loaded_at, uncommitted>>
    /\ UNCHANGED call

\* Variant of SessionSeeded: the wait for the submission table is left out.
SessionSeeded_Unchecked(file, seeded) == TRUE

\* LeetCodeScraper.load_cookies: every cookie of the file is added to the
\* driver and the submission table is awaited; the table shows up only in a
\* session that holds the cookies of a signed-in user.
SessionSeeded(file, seeded) == file = "valid" /\ seeded

\* start() up to the loop: setup_driver and LeetCodeScraper.load_cookies, which
\* raises when the submission table does not show up.
Start(seeded) ==
    /\ pc = "constructed"
    /\ faults' = faults + Cost(~seeded)
    /\ faults' <= MaxFaults
    /\ newest_timestamp' = NoTime
    /\ IF SessionSeeded(cookie_file, seeded)
       THEN /\ pc' = "row"
            /\ focus' = "main"
            /\ tabs' = 0
            /\ page' = 1
            /\ idx' = 1
            /\ loaded_at' = now
            /\ UNCHANGED outcome
       ELSE /\ pc' = "idle"
            /\ outcome' = "setup_failed"
            /\ UNCHANGED <<focus, tabs, page, idx, loaded_at>>
    /\ UNCHANGED <<now, listing, cookie_file, state_file, files, run,
                   last_scraped_time, saved_keys, slug_to_id_title, cur,
                   wm_updates, opens, writes, uncommitted>>
    /\ UNCHANGED call

\* ------------------------------------------------------------------ row loop
\* Variant of AfterRow: the rest of the page is left out.
AfterRow_EndPage(i) == "nextpage"

AfterRow(i) == IF i < PageLen(page) THEN "row" ELSE "nextpage"

RowFaults == {"none", "cols", "fields"}

\* start(), loop body up to the eligibility filter, with its except block.
\* fault: the place where a driver call raises; a row element cannot be read
\* while another window has the focus.
ReadRow(fault, rec, io) ==
    /\ pc = "row"
    /\ focus # "main" => fault = "none"
    /\ rec \in {"close", "switch"} => focus = "tab"
    /\ faults' = faults + Cost(fault # "none") + Cost(rec # "none") + Cost(io # "ok")
    /\ faults' <= MaxFaults
    /\ LET r == RowAt(page, idx)
           row == listing[r]
           raised == IF focus # "main" THEN "cols" ELSE fault
           submission_time ==
               parse_relative_time(
                   TimestampTokens(row.time, loaded_at - SubmittedAt(r)), now)
           back == RowRecovery(focus, tabs, rec)
           Handled(time) ==
               /\ focus' = back.focus
               /\ tabs' = back.tabs
               /\ idx' = idx + 1
               /\ pc' = IF back.abort THEN "finally" ELSE AfterRow(idx)
               /\ outcome' = IF back.abort THEN "context_lost" ELSE outcome
               /\ cur' = [NoCur EXCEPT !.row = r, !.submission_time = time,
                                       !.stage = "error", !.raised = TRUE]
               /\ UNCHANGED <<state_file, wm_updates, newest_timestamp>>
           Continue(stage, time, newest) ==
               /\ idx' = idx + 1
               /\ pc' = AfterRow(idx)
               /\ newest_timestamp' = newest
               /\ cur' = [NoCur EXCEPT !.row = r, !.submission_time = time,
                                       !.stage = stage]
               /\ UNCHANGED <<state_file, wm_updates, focus, tabs, outcome>>
       IN  IF raised = "cols"
           THEN /\ io = "ok"
                /\ Handled(NoTime)
           ELSE IF row.cols < 5
           THEN /\ fault = "none" /\ rec = "none" /\ io = "ok"
                /\ Continue("short", NoTime, newest_timestamp)
           ELSE IF CutoffReached(submission_time, last_scraped_time)
           THEN /\ fault = "none" /\ rec = "none"
                /\ focus' = "none"
                /\ tabs' = 0
                /\ state_file' = update_last_scraped_time(state_file, now, io)
                /\ wm_updates' = wm_updates + 1
                /\ pc' = "finally"
                /\ outcome' = "cutoff"
                /\ cur' = [NoCur EXCEPT !.row = r,
                                        !.submission_time = submission_time,
                                        !.stage = "cutoff"]
                /\ UNCHANGED <<idx, newest_timestamp>>
           ELSE IF raised = "fields"
           THEN /\ io = "ok"
                /\ Handled(submission_time)
           ELSE IF ~Eligible(row.status, row.language)
           THEN /\ rec = "none" /\ io = "ok"
                /\ Continue("ineligible", submission_time,
                            Newest(newest_timestamp, submission_time))
           ELSE /\ rec = "none" /\ io = "ok"
                /\ pc' = "resolve"
                /\ newest_timestamp' = Newest(newest_timestamp, submission_time)
                /\ cur' = [NoCur EXCEPT !.row = r,
                                        !.submission_time = submission_time,
                                        !.stage = "eligible"]
                /\ UNCHANGED <<state_file, wm_updates, focus, tabs, outcome, idx>>
    /\ UNCHANGED <<now, listing, cookie_file, files, run, last_scraped_time,
                   saved_keys, slug_to_id_title, page, loaded_at, opens, writes, uncommitted>>
    /\ UNCHANGED call

\* start(): identity resolution and the ledger check for an eligible row
Resolve(fault, rec, loaded) ==
    /\ pc = "resolve"
    /\ CacheHit(slug_to_id_title, listing[cur.row].url) => fault = "none" /\ loaded
    /\ fault = "none" => rec = "none"
    /\ fault # "none" => loaded
    /\ faults' = faults + Cost(fault # "none") + Cost(rec # "none") + Cost(~loaded)
    /\ faults' <= MaxFaults
    /\ LET row == listing[cur.row]
           got == extract_problem_id_and_title(slug_to_id_title, row.url, tabs,
                                               fault, rec, loaded)
           solution_key == <<got.identity.problem_id, row.language>>
           skipped == got.identity.problem_id = << >>
                      \/ got.identity.problem_title = << >>
       IN  /\ slug_to_id_title' = got.cache
           /\ focus' = got.focus
           /\ tabs' = got.tabs
           /\ opens' = IF got.opened
                       THEN [opens EXCEPT ![row.url] = @ + 1] ELSE opens
           /\ IF skipped
              THEN /\ cur' = [cur EXCEPT !.stage = "notfound"]
                   /\ idx' = idx + 1
                   /\ pc' = AfterRow(idx)
              ELSE IF IsDuplicate(solution_key, saved_keys)
              THEN /\ cur' = [cur EXCEPT !.stage = "duplicate",
                                         !.problem_id = got.identity.problem_id,
                                         !.problem_title = got.identity.problem_title]
                   /\ idx' = idx + 1
                   /\ pc' = AfterRow(idx)
              ELSE /\ cur' = [cur EXCEPT !.stage = "resolved",
                                         !.problem_id = got.identity.problem_id,
                                         !.problem_title = got.identity.problem_title]
                   /\ pc' = "detail"
                   /\ UNCHANGED idx
    /\ UNCHANGED <<now, listing, cookie_file, state_file, files, run,
                   last_scraped_time, saved_keys, newest_timestamp, page,
                   loaded_at, outcome, wm_updates, writes, uncommitted>>
    /\ UNCHANGED call

DetailFaults == {"none", "open", "switch", "close", "back"}

\* Variant of Committed: the key is not recorded.
Committed_Never(ledger, solution_key, code, io) == ledger

\* The ledger after the commit step of a row whose code was extracted.
Committed(ledger, solution_key, code, io) ==
    IF code # EmptyCode THEN ledger \cup {solution_key} ELSE ledger

\* start(): the submission detail view, extract_code, save_solution and the
\* ledger update, with the except block of the row loop.
Detail(fault, rec, extracted, io) ==
    /\ pc = "detail"
    /\ fault = "none" => rec = "none"
    /\ fault \in {"open", "switch"} \/ ~extracted => io = "ok"
    /\ fault \in {"open", "switch"} => extracted
    /\ faults' = faults + Cost(fault # "none") + Cost(rec # "none")
                        + Cost(~extracted) + Cost(io # "ok")
    /\ faults' <= MaxFaults
    /\ LET row == listing[cur.row]
           solution_key == <<cur.problem_id, row.language>>
           code == IF extracted THEN SubmissionCode(cur.row) ELSE EmptyCode
           path == file_path(cur.problem_id, cur.problem_title, row.language)
           viewed == fault \notin {"open", "switch"}
           at == CASE fault = "open"   -> [focus |-> "main", tabs |-> tabs]
                   [] fault = "switch" -> [focus |-> "main", tabs |-> tabs + 1]
                   [] fault = "close"  -> [focus |-> "tab",  tabs |-> tabs + 1]
                   [] fault = "back"   -> [focus |-> "none", tabs |-> tabs]
                   [] OTHER            -> [focus |-> "main", tabs |-> tabs]
           back == IF fault = "none"
                   THEN [focus |-> "main", tabs |-> tabs, abort |-> FALSE]
                   ELSE RowRecovery(at.focus, at.tabs, rec)
       IN  /\ files' = IF viewed /\ code # EmptyCode
                       THEN save_solution(files, path, code, io) ELSE files
           /\ saved_keys' = IF viewed
                            THEN Committed(saved_keys, solution_key, code, io)
                            ELSE saved_keys
           /\ writes' = IF viewed /\ code # EmptyCode
                        THEN [writes EXCEPT ![solution_key] = Append(@, <<cur.row, io>>)]
                        ELSE writes
           /\ focus' = back.focus
           /\ tabs' = back.tabs
           /\ idx' = idx + 1
           /\ pc' = IF back.abort THEN "finally" ELSE AfterRow(idx)
           /\ outcome' = IF back.abort THEN "context_lost" ELSE outcome
           /\ cur' = [cur EXCEPT !.raised = fault # "none",
                                  !.stage =
                         IF ~viewed THEN "error"
                         ELSE IF code = EmptyCode THEN "empty"
                         ELSE IF io = "ok" THEN "committed" ELSE "unwritten"]
           /\ uncommitted' = IF ~viewed THEN uncommitted
                             ELSE IF code # EmptyCode /\ io = "ok"
                             THEN uncommitted \ {cur.row}
                             ELSE uncommitted \cup {cur.row}
    /\ UNCHANGED <<now, listing, cookie_file, state_file, run,
                   last_scraped_time, slug_to_id_title, newest_timestamp, page,
                   loaded_at, wm_updates, opens>>
    /\ UNCHANGED call

PagerResults == {"next", "error"}

\* Variant of NextPageOf: the click leaves the listing on the page shown.
NextPageOf_Same(p) == p

\* The page the listing shows after the click on the pager's next link.
NextPageOf(p) == p + 1

\* start(): the pager.  The next button is disabled on the last page; any
\* failure to find or click it ends the loop as well.
NextPage(pager) ==
    /\ pc = "nextpage"
    /\ faults' = faults + Cost(pager = "error")
    /\ faults' <= MaxFaults
    /\ IF focus # "main" \/ pager = "error"
       THEN /\ pc' = "finally"
            /\ outcome' = "pager_error"
            /\ UNCHANGED <<page, idx, loaded_at>>
       ELSE IF page >= NumPages
       THEN /\ pc' = "finally"
            /\ outcome' = "exhausted"
            /\ UNCHANGED <<page, idx, loaded_at>>
       ELSE /\ pc' = "row"
            /\ page' = NextPageOf(page)
            /\ idx' = 1
            /\ loaded_at' = now
            /\ UNCHANGED outcome
    /\ UNCHANGED <<now, listing, cookie_file, state_file, files, run,
                   last_scraped_time, saved_keys, slug_to_id_title,
                   newest_timestamp, focus, tabs, cur, wm_updates, opens, writes, uncommitted>>
    /\ UNCHANGED call

\* start(), finally block: quit the driver, update the state file
Finally(io) ==
    /\ pc = "finally"
    /\ faults' = faults + Cost(io # "ok")
    /\ faults' <= MaxFaults
    /\ focus' = "none"
    /\ tabs' = 0
    /\ state_file' = update_last_scraped_time(state_file, now, io)
    /\ wm_updates' = wm_updates + 1
    /\ pc' = "idle"
    /\ UNCHANGED <<now, listing, cookie_file, files, run, last_scraped_time,
                   saved_keys, slug_to_id_title, newest_timestamp, page, idx,
                   loaded_at, cur, outcome, opens, writes, uncommitted>>
    /\ UNCHANGED call

Next ==
    \/ Tick
    \/ \E jar \in CookieJars, saved \in BOOLEAN, readable \in BOOLEAN :
           Main(jar, saved, readable)
    \/ \E seeded \in BOOLEAN : Start(seeded)
    \/ \E fault \in RowFaults, rec \in RecoverFaults, io \in IoResults :
           ReadRow(fault, rec, io)
    \/ \E fault \in ResolverFaults, rec \in RecoverFaults, loaded \in BOOLEAN :
           Resolve(fault, rec, loaded)
    \/ \E fault \in DetailFaults, rec \in RecoverFaults, extracted \in BOOLEAN,
          io \in IoResults :
           Detail(fault, rec, extracted, io)
    \/ \E pager \in PagerResults : NextPage(pager)
    \/ \E io \in IoResults : Finally(io)

Spec == Init /\ [][Next]_vars

\* The steps of start(): one thread, every call and sleep of which returns.
RunStep ==
    \/ \E seeded \in BOOLEAN : Start(seeded)
    \/ \E fault \in RowFaults, rec \in RecoverFaults, io \in IoResults :
           ReadRow(fault, rec, io)
    \/ \E fault \in ResolverFaults, rec \in RecoverFaults, loaded \in BOOLEAN :
           Resolve(fault, rec, loaded)
    \/ \E fault \in DetailFaults, rec \in RecoverFaults, extracted \in BOOLEAN,
          io \in IoResults :
           Detail(fault, rec, extracted, io)
    \/ \E pager \in PagerResults : NextPage(pager)
    \/ \E io \in IoResults : Finally(io)

\* The runs of an installation from its first one on: no state file yet.
FirstRunInit == Init /\ state_file = NoTime

\* A run, once started, keeps taking steps.
FairSpec == FirstRunInit /\ [][Next]_vars /\ WF_vars(RunStep)

\* ------------------------------------------- parse_relative_time on its own
program == <<now, listing, cookie_file, state_file, files, pc, run,
             last_scraped_time, saved_keys, slug_to_id_title, newest_timestamp,
             focus, tabs, page, idx, loaded_at, cur, outcome, wm_updates,
             faults, opens, writes, uncommitted>>

\* What re.findall can extract from a time text: up to MaxTokens tokens.
Tokens == (0..MaxValue) \X Units

TimeTexts == UNION {[1..n -> Tokens] : n \in 1..MaxTokens}

ParserInit ==
    /\ now \in NumRows..MaxClock
    /\ listing = [r \in 1..NumRows |-> DefaultRow]
    /\ state_file = NoTime
    /\ Fresh
    /\ arg \in TimeTexts
    /\ ret = NoCall

\* parse_relative_time(time_str) is called with the text arg at minute now.
CallParser ==
    /\ ret = NoCall
    /\ ret' = <<parse_relative_time(arg, now), now>>
    /\ UNCHANGED <<program, arg>>

ParserNext == CallParser

ParserSpec == ParserInit /\ [][ParserNext]_vars

\* ---------------------------------------- the resolver's identifier on its own
\* The digits a front-end id is made of.
DigitChars == {"0", "1", "7"}

\* What the group (\d+) of the questionFrontendId regex can hold.
FrontendIds == UNION {[1..n -> DigitChars] : n \in 1..MaxDigits}

IdInit ==
    /\ now = NumRows
    /\ listing = [r \in 1..NumRows |-> DefaultRow]
    /\ state_file = NoTime
    /\ Fresh
    /\ arg \in FrontendIds
    /\ ret = NoCall

\* id_match.group(1).zfill(4) for the front-end id arg.
CallZfill ==
    /\ ret = NoCall
    /\ ret' = <<zfill(arg, IdWidth)>>
    /\ UNCHANGED <<program, arg>>

IdNext == CallZfill

IdSpec == IdInit /\ [][IdNext]_vars

\* ------------------------------------------------ title sanitizing on its own
\* Characters for which str.isalnum() is false and that are not in ' -_.'.
OtherChars == {"/", ":"}

TitleChars == AlnumChars \cup KeptChars \cup OtherChars

Titles == UNION {[1..n -> TitleChars] : n \in 1..MaxTitle}

TitleInit ==
    /\ now = NumRows
    /\ listing = [r \in 1..NumRows |-> DefaultRow]
    /\ state_file = NoTime
    /\ Fresh
    /\ arg \in Titles
    /\ ret = NoCall

\* save_solution's sanitized_title for the title arg.
CallSanitize ==
    /\ ret = NoCall
    /\ ret' = <<sanitized_title(arg)>>
    /\ UNCHANGED <<program, arg>>

\* The sanitized title goes through the same expression once more.
CallSanitizeAgain ==
    /\ ret # NoCall
    /\ Len(ret) = 1
    /\ ret' = Append(ret, sanitized_title(ret[1]))
    /\ UNCHANGED <<program, arg>>

TitleNext == CallSanitize \/ CallSanitizeAgain

TitleSpec == TitleInit /\ [][TitleNext]_vars

\* --------------------------------------------------- file naming on its own
\* Front-end ids the resolver can read: short ones, two that pad to one
\* identifier, and one longer than the padding width.
SampleIds ==
    { <<"1">>, <<"7">>, <<"1", "7">>, <<"0", "1", "7">>,
      <<"1", "0", "0", "1", "7">> }

\* Titles the resolver can read: two that sanitize to one text, and one that
\* holds the separator of the file name.
SampleTitles ==
    { <<"A">>, <<"A", "/">>, <<"A", "_">>, <<"7", " ", "-", " ", "A", ".">> }

\* What start() hands to save_solution for a row: the front-end id read from
\* the page, the title, and a language that passed the filter.
Solutions == SampleIds \X SampleTitles \X SupportedLanguages

PathInit ==
    /\ now = NumRows
    /\ listing = [r \in 1..NumRows |-> DefaultRow]
    /\ state_file = NoTime
    /\ Fresh
    /\ arg \in Solutions \X Solutions
    /\ ret = NoCall

\* The file names of two solutions, each identifier padded by the resolver.
CallFilePath ==
    /\ ret = NoCall
    /\ ret' = << file_path(zfill(arg[1][1], IdWidth), arg[1][2], arg[1][3]),
                 file_path(zfill(arg[2][1], IdWidth), arg[2][2], arg[2][3]) >>
    /\ UNCHANGED <<program, arg>>

PathNext == CallFilePath

PathSpec == PathInit /\ [][PathNext]_vars

\* ====================================================================== claims
RunEnded == pc = "idle" /\ outcome \in {"cutoff", "exhausted", "pager_error", "context_lost"}

KeyOf(r) == <<zfill(QuestionFrontendId(listing[r].url), IdWidth), listing[r].language>>

\* C1: in a run that loaded a watermark W, a row whose parsed time is <= W ends
\* the scan at once (no later row, no further page), and every step that opens a
\* problem page, writes a file or adds a ledger entry is for a row with time > W.
C1_CutoffStopsScan ==
    [][ /\ ( /\ pc = "row"
             /\ last_scraped_time # NoTime
             /\ cur' # cur
             /\ cur'.submission_time # NoTime
             /\ cur'.submission_time <= last_scraped_time )
           => ( /\ pc' = "finally"
                /\ UNCHANGED <<page, idx, files, saved_keys, slug_to_id_title,
                               opens, writes>> )
        /\ pc = "finally"
           => ( /\ pc' = "idle"
                /\ UNCHANGED <<page, idx, files, saved_keys, slug_to_id_title,
                               opens, writes>> )
        /\ ( /\ pc \in {"row", "resolve", "detail", "nextpage"}
             /\ last_scraped_time # NoTime
             /\ <<files, saved_keys, slug_to_id_title, opens, writes>>'
                    # <<files, saved_keys, slug_to_id_title, opens, writes>> )
           => ( /\ pc \in {"resolve", "detail"}
                /\ cur.submission_time > last_scraped_time )
      ]_vars

\* C1 witness: a run with a watermark committed a row and then stopped at an
\* older row through the cutoff.
C1_Witness ==
    /\ pc = "finally"
    /\ outcome = "cutoff"
    /\ cur.stage = "cutoff"
    /\ cur.row > 1
    /\ saved_keys # {}
    /\ last_scraped_time # NoTime

\* C2: the watermark a run in which nothing failed leaves in the state file is
\* the newest submission time among the rows it visited; a run that visited no
\* row newer than the watermark leaves the watermark it loaded.
C2_WatermarkIsNewestVisited ==
    (RunEnded /\ faults = 0)
        => state_file = IF newest_timestamp # NoTime
                        THEN newest_timestamp ELSE last_scraped_time

\* C3: a row left uncommitted by an empty extraction or a failed file write is
\* not cut off by the watermark: when a run stops at the cutoff, every such row
\* lies before the row it stopped at.
C3_UncommittedRowRetried ==
    (pc = "finally" /\ outcome = "cutoff")
        => \A r \in uncommitted : r < cur.row

\* C4: after an empty extraction or a failed file write the row's DedupKey is
\* not in the ledger.
C4_LedgerOnlyAfterWrite ==
    cur.stage \in {"empty", "unwritten"}
        => <<cur.problem_id, listing[cur.row].language>> \notin saved_keys

\* C5: within one run save_solution runs at most once for every DedupKey, and the
\* detail view is only ever opened for a row whose key is not in the ledger.
C5_OneWritePerKey ==
    /\ \A k \in DedupKeys : Len(writes[k]) <= 1
    /\ pc = "detail" => <<cur.problem_id, listing[cur.row].language>> \notin saved_keys
    /\ cur.stage = "duplicate"
          => /\ <<cur.problem_id, listing[cur.row].language>> \in saved_keys
             /\ \A k \in DedupKeys : \A i \in 1..Len(writes[k]) : writes[k][i][1] # cur.row

\* C5 witness: a later row of a key already saved in this run was skipped.
C5_Witness ==
    /\ cur.stage = "duplicate"
    /\ Len(writes[<<cur.problem_id, listing[cur.row].language>>]) = 1

\* Rows of the listing that pass the filters of the row loop.
Savable(r) ==
    /\ listing[r].cols >= 5
    /\ listing[r].status = Accepted
    /\ listing[r].language \in SupportedLanguages

NewestOfKey(r) == Savable(r) /\ \A q \in 1..(r - 1) : ~(Savable(q) /\ KeyOf(q) = KeyOf(r))

PathOf(r) ==
    file_path(zfill(QuestionFrontendId(listing[r].url), IdWidth),
              PageTitle(listing[r].url), listing[r].language)

FullScan == RunEnded /\ outcome = "exhausted" /\ last_scraped_time = NoTime

C7_WatermarkWrittenOnce ==
    /\ RunEnded => wm_updates = 1
    /\ pc \in {"row", "resolve", "detail", "nextpage"} => wm_updates = 0

\* C8: a row read without error, newer than the watermark, whose status is not
\* Accepted or whose language is unsupported: nothing is resolved, written or
\* added to the ledger, the scan goes on to the next row, and the newest
\* timestamp is raised to the row's time when that is larger.
C8_IneligibleRowSkipped ==
    [][ ( /\ pc = "row"
          /\ cur' # cur
          /\ cur'.stage # "error"
          /\ cur'.submission_time # NoTime
          /\ last_scraped_time # NoTime => cur'.submission_time > last_scraped_time
          /\ \/ listing[cur'.row].status # Accepted
             \/ listing[cur'.row].language \notin SupportedLanguages )
        => ( /\ UNCHANGED <<files, saved_keys, slug_to_id_title, opens, writes,
                            focus, tabs, state_file, outcome, page>>
             /\ idx' = idx + 1
             /\ pc' = IF idx < PageLen(page) THEN "row" ELSE "nextpage"
             /\ newest_timestamp' =
                   IF newest_timestamp = NoTime
                      \/ cur'.submission_time > newest_timestamp
                   THEN cur'.submission_time ELSE newest_timestamp )
      ]_vars

\* C8 witness: an ineligible row newer than the loaded watermark was skipped and
\* became the newest timestamp.
C8_Witness ==
    /\ cur.stage = "ineligible"
    /\ last_scraped_time # NoTime
    /\ newest_timestamp = cur.submission_time
    /\ pc \in {"row", "nextpage"}

\* C9 (as stated): within one run the problem page of a reference is opened at
\* most once, whether its first resolution succeeded or not.
C9_PageOpenedOnce == \A u \in Urls : opens[u] <= 1

\* C9 (amended): once the resolution of a reference succeeded, its problem page
\* is not opened again in that run: the cached pair is never changed mid-run,
\* and every later resolve returns it without touching the page client.
C9_ResolvedReferenceNotReopened ==
    [][ /\ \A u \in Urls : opens'[u] > opens[u] => u \notin DOMAIN slug_to_id_title
        /\ pc # "idle" =>
              \A u \in DOMAIN slug_to_id_title :
                  u \in DOMAIN slug_to_id_title'
                  /\ slug_to_id_title'[u] = slug_to_id_title[u]
        /\ (pc = "resolve" /\ listing[cur.row].url \in DOMAIN slug_to_id_title)
              => /\ UNCHANGED <<opens, focus, tabs, slug_to_id_title>>
                 /\ cur'.problem_id = slug_to_id_title[listing[cur.row].url].problem_id
                 /\ cur'.problem_title = slug_to_id_title[listing[cur.row].url].problem_title
      ]_vars

\* C9 witness: a second row of a problem resolved earlier in the run was
\* resolved with the page opened once.
C9_Witness ==
    /\ cur.stage \in {"duplicate", "resolved"}
    /\ opens[listing[cur.row].url] = 1
    /\ \E q \in 1..(cur.row - 1) :
          /\ listing[q].url = listing[cur.row].url
          /\ \E k \in DedupKeys : writes[k] # << >> /\ writes[k][1][1] = q

\* C10: whenever the driver starts on a row, opens a detail view or asks for the
\* next page, the main listing has the focus and no secondary window is open.
C10_ContextRestored ==
    pc \in {"row", "detail", "nextpage"} => focus = "main" /\ tabs = 0

\* C11: when the body of the row loop raises and the except block gets back to
\* the main window, the run goes on with the next row of the listing: the
\* identity cache, the ledger entries and the files of other rows stay as they
\* are (nothing at all changes when the exception precedes the save), and the
\* rows are read one after the other, none left out.
C11_RowErrorContinues ==
    [][ /\ (cur' # cur /\ cur'.raised /\ pc' # "finally")
           => /\ pc' = IF idx < PageLen(page) THEN "row" ELSE "nextpage"
              /\ idx' = idx + 1
              /\ page' = page
              /\ outcome' = "running"
              /\ focus' = "main"
              /\ slug_to_id_title' = slug_to_id_title
              /\ saved_keys \subseteq saved_keys'
              /\ saved_keys' \ saved_keys \subseteq {KeyOf(cur'.row)}
              /\ \A p \in DOMAIN files :
                    p # PathOf(cur'.row)
                        => p \in DOMAIN files' /\ files'[p] = files[p]
              /\ cur'.stage = "error" => UNCHANGED <<saved_keys, files>>
        /\ (pc = "row" /\ cur'.row # cur.row)
              => cur'.row = cur.row + 1 /\ cur'.row = RowAt(page, idx)
      ]_vars

\* C11 witness: after a row was saved, a later row raised, the main window was
\* restored and the loop stands at the row after it.
C11_Witness ==
    /\ pc = "row"
    /\ outcome = "running"
    /\ cur.raised
    /\ cur.stage = "error"
    /\ cur.row > 1
    /\ saved_keys # {}
    /\ RowAt(page, idx) = cur.row + 1

\* C12: a run that ends because authentication is unavailable has attempted a
\* watermark save, and the save at the end of a run that lost its navigation
\* context stores the newest row time the run observed.
C12_FatalSavesWatermark ==
    [][ /\ (pc' = "idle" /\ outcome' = "auth_failed") => wm_updates' >= 1
        /\ ( /\ pc = "finally"
             /\ outcome = "context_lost"
             /\ newest_timestamp # NoTime
             /\ state_file' \notin {state_file, Corrupt} )
           => state_file' = newest_timestamp
      ]_vars

C14_UnknownLanguageSavedAsTxt ==
    (FullScan /\ faults = 0)
        => \A r \in 1..NumRows :
              ( /\ listing[r].cols >= 5
                /\ listing[r].status = Accepted
                /\ listing[r].language \notin SupportedLanguages )
                 => /\ extension_map(listing[r].language) = <<"t", "x", "t">>
                    /\ PathOf(r) \in DOMAIN files

\* C15: a run that follows a run in which nothing failed, over the same
\* listing, stops at the first row through the cutoff and writes no file.
C15_SecondRunWritesNothing ==
    (run >= 2 /\ faults = 0 /\ listing[1].cols >= 5)
        => /\ cur.row <= 1
           /\ cur.stage \in {"none", "cutoff"}
           /\ \A k \in DedupKeys : writes[k] = << >>

C18_LoadFailsSoft ==
    [][ /\ (pc = "idle" /\ run' # run /\ cookie_file' # "missing")
              => /\ pc' = "constructed"
                 /\ last_scraped_time' \in {NoTime, state_file}
        /\ ( /\ pc = "idle"
             /\ pc' = "constructed"
             /\ \/ state_file \in {NoTime, Corrupt}
                \/ cookie_file # "missing" /\ faults' > faults )
              => last_scraped_time' = NoTime
        /\ last_scraped_time = NoTime
              => /\ outcome' # "cutoff"
                 /\ cur'.stage # "cutoff"
                 /\ (pc' = "finally" /\ outcome' = "exhausted")
                       => cur'.row = NumRows
                 /\ (pc \in {"row", "resolve", "detail", "nextpage"}
                        /\ pc' = "finally" /\ faults' = 0)
                       => outcome' = "exhausted"
      ]_vars

\* C18 witness: a run that found the state file without a valid timestamp has
\* gone through the whole listing.
C18_Witness ==
    /\ pc = "finally"
    /\ state_file = Corrupt
    /\ last_scraped_time = NoTime
    /\ outcome = "exhausted"
    /\ cur.row = NumRows
    /\ run = 2

\* The first cell of row r, as the page shown renders it, holds no token.
NoToken(r) ==
    TimestampTokens(listing[r].time, loaded_at - SubmittedAt(r)) = << >>

\* C19: a row whose time text holds no <integer> <unit> token is given the
\* current time; under a watermark earlier than the current time it does not
\* take the cutoff, it goes through the filter like any new row, and the
\* newest time observed becomes the current time.
C19_UnparsedTimeIsNow ==
    [][ ( /\ pc = "row"
          /\ cur' # cur
          /\ cur'.submission_time # NoTime
          /\ NoToken(RowAt(page, idx)) )
         => /\ cur'.row = RowAt(page, idx)
            /\ cur'.submission_time = now
            /\ last_scraped_time < now
                  => /\ cur'.stage \in {"eligible", "ineligible", "error"}
                     /\ outcome' # "cutoff"
                     /\ cur'.stage # "error"
                           => /\ outcome' = "running"
                              /\ newest_timestamp' = now
                              /\ cur'.stage = "eligible"
                                    <=> Eligible(listing[cur'.row].status,
                                                 listing[cur'.row].language)
                              /\ cur'.stage = "eligible" <=> pc' = "resolve"
      ]_vars

\* C19 witness: under a watermark, a row that is not the first of the listing
\* and whose time text holds no token passed the filter with the current time.
C19_Witness ==
    /\ pc = "resolve"
    /\ cur.row > 1
    /\ listing[cur.row].time = "unparsed"
    /\ last_scraped_time # NoTime
    /\ cur.submission_time = now
    /\ newest_timestamp = now
    /\ now > SubmittedAt(1)

\* The minutes the claim gives for each unit.
MinutesPerUnit ==
    [minute |-> 1, hour |-> 60, day |-> 1440, week |-> 10080,
     month |-> 43800, year |-> 525600]

\* Sum over the first n tokens of value times the unit's minutes.
RECURSIVE ElapsedUpTo(_, _)
ElapsedUpTo(text, n) ==
    IF n = 0 THEN 0
    ELSE ElapsedUpTo(text, n - 1) + text[n][1] * MinutesPerUnit[text[n][2]]

OneDayThreeHours == << <<1, "day">>, <<3, "hour">> >>

\* C20: for a time text of one or more <integer> <unit> tokens the parser
\* returns the time of the call minus the sum over all tokens of value times
\* the unit's minutes; "1 day 3 hours ago" yields the time of the call minus
\* 1620 minutes.
C20_ParserSubtractsSum ==
    ret # NoCall
        => /\ ret[1] = ret[2] - ElapsedUpTo(arg, Len(arg))
           /\ arg = OneDayThreeHours => ret[1] = ret[2] - 1620

\* C20 witness: "1 day 3 hours ago" was parsed.
C20_Witness ==
    /\ ret # NoCall
    /\ arg = OneDayThreeHours
    /\ ret[1] = ret[2] - 1620

\* C21 (as stated): the identifier the resolver returns for a front-end id has
\* exactly 4 digits.
C21_ExactlyFourDigits ==
    ret # NoCall => Len(ret[1]) = 4

\* C21 (amended): the identifier is the front-end id left-padded with zeros to
\* 4 digits; it has exactly 4 digits when the id has at most 4, and is the id
\* itself when the id has more.
C21_PaddedToFourDigits ==
    ret # NoCall
        => LET id == ret[1]
               pad == Len(id) - Len(arg)
           IN  /\ Len(id) = IF Len(arg) <= 4 THEN 4 ELSE Len(arg)
               /\ \A i \in 1..Len(id) :
                     id[i] = IF i <= pad THEN "0" ELSE arg[i - pad]

\* C21 witness: the front-end id 1 was padded to 0001.
C21_Witness ==
    /\ arg = <<"1">>
    /\ ret = << <<"0", "0", "0", "1">> >>

\* C22: sanitizing keeps every alphanumeric, space, '-', '_' and '.' of a title
\* where it is and puts '_' in the place of every other character; the result
\* is as long as the title, holds allowed characters only, and is left as it
\* is when sanitized again.
C22_SanitizeCharByChar ==
    ret # NoCall
        => /\ Len(ret[1]) = Len(arg)
           /\ \A i \in 1..Len(arg) :
                 /\ ret[1][i] = IF arg[i] \in AlnumChars \cup {" ", "-", "_", "."}
                                THEN arg[i] ELSE "_"
                 /\ ret[1][i] \in AlnumChars \cup {" ", "-", "_", "."}
           /\ Len(ret) = 2 => ret[2] = ret[1]

\* C22 witness: "A/B" was sanitized to "A_B", and sanitized again to "A_B".
C22_Witness ==
    /\ arg = <<"A", "/", "B">>
    /\ ret = << <<"A", "_", "B">>, <<"A", "_", "B">> >>

\* A step in which update_last_scraped_time was called and its save failed.
SaveFailed ==
    /\ \/ pc = "finally"
       \/ pc = "row" /\ outcome' = "cutoff"
    /\ faults' > faults

C24_EveryRowVisited ==
    (pc \in {"finally", "idle"} /\ outcome \in {"exhausted", "pager_error"})
        => /\ page = NumPages
           /\ cur.row = NumRows

\* C25: after a run has ended, every accepted row in a supported language that
\* the run did not reach and that was submitted after the watermark the run
\* loaded was also submitted after the watermark the run left in the state
\* file.
C25_UnvisitedRowsStayNew ==
    RunEnded
        => \A r \in (cur.row + 1)..NumRows :
              ( /\ Savable(r)
                /\ last_scraped_time = NoTime \/ SubmittedAt(r) > last_scraped_time )
                 => SubmittedAt(r) > state_file

\* C26 (as stated): every call of the writer in a run is for an accepted row in
\* a supported language with the key of that row, and no file of the save
\* directory is empty.
C26_NoEmptyFile ==
    /\ \A k \in DedupKeys :
          \A i \in 1..Len(writes[k]) :
              Savable(writes[k][i][1]) /\ KeyOf(writes[k][i][1]) = k
    /\ \A p \in DOMAIN files : files[p] # EmptyCode

\* C26 (amended): the writer is called only for the row at hand, which is
\* accepted, in a supported language, parsed as later than the loaded
\* watermark, resolved to its problem identity and not skipped, and only with
\* the non-empty code of that row; only that row's file changes, and it is
\* left empty only when the write fails after the file was opened.
C26_WritesOnlyValidRows ==
    [][ /\ (pc = "detail" /\ writes' # writes)
           => LET r == cur.row
                  row == listing[r]
                  p == file_path(cur.problem_id, cur.problem_title, row.language)
                  w == writes'[KeyOf(r)][Len(writes'[KeyOf(r)])]
              IN  /\ row.cols >= 5
                  /\ row.status = Accepted
                  /\ row.language \in SupportedLanguages
                  /\ last_scraped_time # NoTime
                        => cur.submission_time > last_scraped_time
                  /\ cur.stage = "resolved"
                  /\ cur.problem_id = zfill(QuestionFrontendId(row.url), IdWidth)
                  /\ cur.problem_title = PageTitle(row.url)
                  /\ writes' = [writes EXCEPT ![KeyOf(r)] = Append(@, w)]
                  /\ w[1] = r
                  /\ SubmissionCode(r) # EmptyCode
                  /\ \A q \in DOMAIN files :
                        q # p => q \in DOMAIN files' /\ files'[q] = files[q]
                  /\ DOMAIN files' \subseteq DOMAIN files \cup {p}
                  /\ w[2] = "ok" => files'[p] = SubmissionCode(r)
                  /\ w[2] = "open_fails" => files' = files
                  /\ w[2] = "write_fails" => files'[p] = EmptyCode
        /\ files' # files => pc = "detail" /\ writes' # writes
      ]_vars

\* C26 witness: under a watermark, a row newer than it was resolved and its
\* code written to its file.
C26_Witness ==
    /\ cur.stage = "committed"
    /\ last_scraped_time # NoTime
    /\ cur.submission_time > last_scraped_time
    /\ PathOf(cur.row) \in DOMAIN files
    /\ files[PathOf(cur.row)] = SubmissionCode(cur.row)

\* The solution_key start() builds for a solution: (padded id, language).
SolutionKey(s) == <<zfill(s[1], IdWidth), s[3]>>

\* C27: the extension map is injective on the supported languages, every file
\* name starts with the problem identifier followed by " - ", and two
\* solutions whose (problem id, language) keys differ get different file
\* paths, whatever their titles.
C27_DistinctKeysDistinctPaths ==
    /\ \A l1 \in SupportedLanguages : \A l2 \in SupportedLanguages :
          l1 # l2 => extension_map(l1) # extension_map(l2)
    /\ ret # NoCall
          => /\ \A i \in 1..2 :
                   LET id == zfill(arg[i][1], IdWidth)
                   IN  SubSeq(ret[i], 1, Len(id) + 3) = id \o <<" ", "-", " ">>
             /\ SolutionKey(arg[1]) # SolutionKey(arg[2]) => ret[1] # ret[2]

\* C27 witness: the same problem, read as 17 and as 017, with the same title,
\* solved in c and in cpp: only the extension tells the two files apart.
C27_Witness ==
    /\ arg = << << <<"1", "7">>, <<"A">>, "c" >>,
                << <<"0", "1", "7">>, <<"A">>, "cpp" >> >>
    /\ ret = << <<"0", "0", "1", "7", " ", "-", " ", "A", ".", "c">>,
                <<"0", "0", "1", "7", " ", "-", " ", "A", ".", "c", "p", "p">> >>

====
